---- MODULE Spec2Model ----
(***************************************************************************)
(* diecast funcdoc: extraction of function documentation from annotated    *)
(* comments (src/cli/funcdoc.go).  Text is modelled as sequences of        *)
(* one-character strings so that the regular expressions, TrimSpace,       *)
(* TrimPrefix, Join and Split are computed rather than assumed.            *)
(***************************************************************************)
EXTENDS Integers, Sequences, FiniteSets, TLC

\* ------------------------------------------------------------------ bounds
\* most comment groups ParseFile may return for one file
MaxGroups == 2
\* most comments in one comment group
MaxLines == 3
\* most parameters of a callable handed to getFnSignature in SpecSig
MaxIn == 2
\* most return values of a callable handed to getFnSignature in SpecSig
MaxOut == 2
\* most argument names handed to getFnSignature in SpecSig
MaxArgNames == 3

\* ------------------------------------------------------------- characters
\* \s of Go's regexp (RE2) and the ASCII part of unicode.IsSpace
Space == {" ", "\t", "\n", "\r", "\f"}

\* \w of Go's regexp: [0-9A-Za-z_]
Word ==
  {"a","b","c","d","e","f","g","h","i","j","k","l","m","n","o","p","q","r","s",
   "t","u","v","w","x","y","z","A","B","C","D","E","F","G","H","I","J","K","L",
   "M","N","O","P","Q","R","S","T","U","V","W","X","Y","Z","0","1","2","3","4",
   "5","6","7","8","9","_"}

Min(a, b) == IF a <= b THEN a ELSE b

\* ---------------------------------------------------------------- strings
\* whether text t holds the literal lit at position i
HasAt(t, i, lit) ==
  /\ i >= 1
  /\ i + Len(lit) - 1 <= Len(t)
  /\ \A k \in 1..Len(lit) : t[i + k - 1] = lit[k]

\* the first position >= i of t that holds no character of class, Len(t)+1 if
\* there is none: where a greedy class* or class+ starting at i stops
RECURSIVE SkipClass(_, _, _)
SkipClass(t, i, class) ==
  IF i > Len(t) \/ t[i] \notin class THEN i ELSE SkipClass(t, i + 1, class)

\* the first position >= i of t that holds character c, 0 if there is none
RECURSIVE IndexFrom(_, _, _)
IndexFrom(t, i, c) ==
  IF i > Len(t) THEN 0
  ELSE IF t[i] = c THEN i
  ELSE IndexFrom(t, i + 1, c)

\* the last position <= i of t that holds no whitespace, 0 if there is none
RECURSIVE LastNonSpace(_, _)
LastNonSpace(t, i) ==
  IF i < 1 THEN 0
  ELSE IF t[i] \notin Space THEN i
  ELSE LastNonSpace(t, i - 1)

\* strings.TrimSpace
TrimSpace(t) ==
  LET first == SkipClass(t, 1, Space)
      last  == LastNonSpace(t, Len(t))
  IN  IF first > last THEN <<>> ELSE SubSeq(t, first, last)

\* strings.TrimPrefix
TrimPrefix(t, prefix) ==
  IF HasAt(t, 1, prefix) THEN SubSeq(t, Len(prefix) + 1, Len(t)) ELSE t

\* strings.Join
RECURSIVE Join(_, _)
Join(elems, sep) ==
  IF Len(elems) = 0 THEN <<>>
  ELSE IF Len(elems) = 1 THEN elems[1]
  ELSE elems[1] \o sep \o Join(Tail(elems), sep)

\* the number of non-overlapping occurrences of the one-character separator
\* c in t from position i on
RECURSIVE CountFrom(_, _, _)
CountFrom(t, i, c) ==
  IF i > Len(t) THEN 0
  ELSE (IF t[i] = c THEN 1 ELSE 0) + CountFrom(t, i + 1, c)

\* len(strings.Split(t, c)) for a one-character separator c
SplitLen(t, c) == CountFrom(t, 1, c) + 1

\* ------------------------------------------------------ annotation grammar
NoMatch == [ok |-> FALSE, func |-> <<>>, docstring |-> <<>>]

\* rxFnDocString, `//\s*fn\s*(?P<func>[^:]+):\s*(?P<docstring>.*)`, tried at
\* start position i of t.  \s* is greedy but gives back one character when
\* [^:]+ would otherwise be empty; [^:]+ runs to the first colon; .* runs to
\* the end of the line.
MatchFnAt(t, i) ==
  IF ~HasAt(t, i, <<"/", "/">>) THEN NoMatch
  ELSE LET f == SkipClass(t, i + 2, Space)
       IN  IF ~HasAt(t, f, <<"f", "n">>) THEN NoMatch
           ELSE LET colon == IndexFrom(t, f + 2, ":")
                IN  IF colon <= f + 2 THEN NoMatch
                    ELSE LET name == Min(SkipClass(t, f + 2, Space), colon - 1)
                             doc  == SkipClass(t, colon + 1, Space)
                             nl   == IndexFrom(t, doc, "\n")
                             end  == IF nl = 0 THEN Len(t) ELSE nl - 1
                         IN  [ok        |-> TRUE,
                              func      |-> SubSeq(t, name, colon - 1),
                              docstring |-> SubSeq(t, doc, end)]

\* rxutil.Match(comment.Text, rxFnDocString): the leftmost match of the
\* unanchored pattern, NoMatch (nil) if there is none
RECURSIVE MatchFnFrom(_, _)
MatchFnFrom(t, i) ==
  IF i > Len(t) THEN NoMatch
  ELSE LET m == MatchFnAt(t, i)
       IN  IF m.ok THEN m ELSE MatchFnFrom(t, i + 1)

MatchFn(t) == MatchFnFrom(t, 1)

\* ------------------------------------------------------- argument names
\* one `\*(\w+)\*` at position i of t: [ok, cap, next]
ItemAt(t, i) ==
  IF i > Len(t) \/ t[i] # "*" THEN [ok |-> FALSE, cap |-> <<>>, next |-> i]
  ELSE LET w == SkipClass(t, i + 1, Word)
       IN  IF w > i + 1 /\ w <= Len(t) /\ t[w] = "*"
           THEN [ok |-> TRUE, cap |-> SubSeq(t, i + 1, w - 1), next |-> w + 1]
           ELSE [ok |-> FALSE, cap |-> <<>>, next |-> i]

\* `(?:\*(\w+)\*)+` at position i of t: the items are taken greedily and the
\* capture group keeps the last one
RECURSIVE RunAt(_, _)
RunAt(t, i) ==
  LET one == ItemAt(t, i)
  IN  IF ~one.ok THEN one
      ELSE LET more == RunAt(t, one.next)
           IN  IF more.ok THEN more ELSE one

\* rxutil.Match(docstring, `(?:\*(\w+)\*)+`).AllCaptures(): the captures of
\* the successive non-overlapping matches, nil (empty) if there is no match
RECURSIVE ArgNamesFrom(_, _)
ArgNamesFrom(t, i) ==
  IF i > Len(t) THEN <<>>
  ELSE LET r == RunAt(t, i)
       IN  IF r.ok THEN <<r.cap>> \o ArgNamesFrom(t, r.next)
           ELSE ArgNamesFrom(t, i + 1)

ArgNames(docstring) == ArgNamesFrom(docstring, 1)

\* ---------------------------------------------------------- reflect types
\* a reflect.Type as far as funcdoc reads it: Name() and Kind().  Name() is
\* the empty string for a type that is not a defined type.
TInt     == [name |-> <<"i","n","t">>, kind |-> "int"]
TString  == [name |-> <<"s","t","r","i","n","g">>, kind |-> "string"]
TError   == [name |-> <<"e","r","r","o","r">>, kind |-> "interface"]
\* interface{}
TAny     == [name |-> <<>>, kind |-> "interface"]
\* []string
TStrings == [name |-> <<>>, kind |-> "slice"]

\* a func value of the registry
Func(in, variadic, out) ==
  [kind |-> "func", in |-> in, variadic |-> variadic, out |-> out]

\* a registry value that is not a func (a string constant)
NotFunc == [kind |-> "string", in |-> <<>>, variadic |-> FALSE, out |-> <<>>]

\* the `switch typename` of both loops: `interface{}` is rendered `any`
TypeName(T) ==
  IF T.name = <<"i","n","t","e","r","f","a","c","e","{","}">>
  THEN <<"a","n","y">>
  ELSE T.name

\* InArg with the variadic prefix put only on an entry that has no name
InArgPrefixUnnamedOnly(fn, inArgNames, in) ==
  IF in <= Len(inArgNames)
  THEN inArgNames[in] \o <<" ">> \o TypeName(fn.in[in])
  ELSE IF fn.variadic /\ in = Len(fn.in)
       THEN <<".", ".", ".">> \o TypeName(fn.in[in])
       ELSE TypeName(fn.in[in])

\* the rendered entry of parameter number in (from 1) of fn
InArg(fn, inArgNames, in) ==
  LET typename == IF fn.variadic /\ in = Len(fn.in)
                  THEN <<".", ".", ".">> \o TypeName(fn.in[in])
                  ELSE TypeName(fn.in[in])
  IN  IF in <= Len(inArgNames)
      THEN inArgNames[in] \o <<" ">> \o typename
      ELSE typename

\* getFnSignature: [sig, outs, err]
getFnSignature(fn, inArgNames) ==
  IF fn.kind = "func"
  THEN LET args == [in \in 1..Len(fn.in) |-> InArg(fn, inArgNames, in)]
           outs == [o \in 1..Len(fn.out) |-> TypeName(fn.out[o])]
       IN  [sig  |-> Join(args, <<",", " ">>),
            outs |-> Join(outs, <<",", " ">>),
            err  |-> FALSE]
  ELSE [sig |-> <<>>, outs |-> <<>>, err |-> TRUE]

\* --------------------------------------------------------------- rendering
\* ReturnSignature with the parentheses put around a single type as well
ReturnSignatureAlwaysParens(returns) ==
  IF returns # <<>> THEN <<" ", "(">> \o returns \o <<")">> ELSE returns

\* main's returnSignature for doc.Returns
ReturnSignature(returns) ==
  IF returns # <<>>
  THEN IF SplitLen(returns, ",") > 1
       THEN <<" ", "(">> \o returns \o <<")">>
       ELSE <<" ">> \o returns
  ELSE returns

\* fmt.Printf("%s(%s)%s\n", doc.Name, doc.Signature, returnSignature)
Header(d) ==
  d.Name \o <<"(">> \o d.Signature \o <<")">> \o ReturnSignature(d.Returns)

\* "signature failed: must provide a function to get a signature"
SignatureFailedLine ==
  <<"s","i","g","n","a","t","u","r","e"," ","f","a","i","l","e","d",":"," ",
    "m","u","s","t"," ","p","r","o","v","i","d","e"," ","a"," ","f","u","n",
    "c","t","i","o","n"," ","t","o"," ","g","e","t"," ","a"," ","s","i","g",
    "n","a","t","u","r","e">>

\* "err: " followed by the parser's message, which the model does not spell
ErrLine == <<"e","r","r",":"," ">>

\* ------------------------------------------------------------------ inputs
Add      == <<"A","d","d">>
Version  == <<"V","e","r","s","i","o","n">>

\* "// fn Add: adds *a* and *b* together."
LineAdd ==
  <<"/","/"," ","f","n"," ","A","d","d",":"," ","a","d","d","s"," ","*","a",
    "*"," ","a","n","d"," ","*","b","*"," ","t","o","g","e","t","h","e","r",
    ".">>
\* "// fn Multiply: multiplies *a* and *b*."  (Multiply is never registered)
LineMultiply ==
  <<"/","/"," ","f","n"," ","M","u","l","t","i","p","l","y",":"," ","m","u",
    "l","t","i","p","l","i","e","s"," ","*","a","*"," ","a","n","d"," ","*",
    "b","*",".">>
\* "// fn Add:  "  (an empty docstring)
LineAddEmpty == <<"/","/"," ","f","n"," ","A","d","d",":"," "," ">>
\* "// fn Version: build *tag*."  (Version is registered, but is no func)
LineVersion ==
  <<"/","/"," ","f","n"," ","V","e","r","s","i","o","n",":"," ","b","u","i",
    "l","d"," ","*","t","a","g","*",".">>
\* "//   Useful for testing. "
LineUseful ==
  <<"/","/"," "," "," ","U","s","e","f","u","l"," ","f","o","r"," ","t","e",
    "s","t","i","n","g","."," ">>

\* the comment texts a file is made of
Lines == {LineAdd, LineMultiply, LineAddEmpty, LineVersion, LineUseful}

\* the comment groups ParseFile can return: 1..MaxLines comments each
Groups == UNION {[1..n -> Lines] : n \in 1..MaxLines}

\* {"Add": func(a int, b int) int, "Version": "1.0"}
StandardFunctions ==
  [n \in {Add, Version} |->
     IF n = Add THEN Func(<<TInt, TInt>>, FALSE, <<TInt>>) ELSE NotFunc]

\* {"Add": func(a int, b ...string) (int, error), "Version": "1.0"}
VariadicFunctions ==
  [n \in {Add, Version} |->
     IF n = Add THEN Func(<<TInt, TStrings>>, TRUE, <<TInt, TError>>)
     ELSE NotFunc]

Registries == {StandardFunctions, VariadicFunctions}

\* the callables and argument names of the direct calls of getFnSignature
InTypes  == {TInt, TAny, TStrings}
OutTypes == {TInt, TAny}
ArgPool  == {<<"a">>, <<"m","s","g">>}

SeqsUpTo(S, n) == UNION {[1..k -> S] : k \in 0..n}

Funcs ==
  {Func(in, variadic, o) :
     in \in SeqsUpTo(InTypes, MaxIn), variadic \in BOOLEAN,
     o \in SeqsUpTo(OutTypes, MaxOut)}

\* a variadic func has a last parameter, and it is a slice
WellFormed(fn) ==
  fn.variadic => Len(fn.in) > 0 /\ fn.in[Len(fn.in)].kind = "slice"

Calls ==
  {[fn |-> fn, names |-> names] :
     fn \in {f \in Funcs : WellFormed(f)} \cup {NotFunc},
     names \in SeqsUpTo(ArgPool, MaxArgNames)}

\* ------------------------------------------------------------------- state
VARIABLES
  funcs,   \* the registry handed to GenerateFunctionDocs (diecast.FuncMap)
  pc,      \* the position in main / GenerateFunctionDocs
  gi,      \* how many comment groups the outer loop has taken
  group,   \* group.List of the current comment group: the comments' Text
  ci,      \* the index in group of the comment the inner loop is at
  doc,     \* the functionDoc of the current group
  docs,    \* the result slice
  err,     \* the error GenerateFunctionDocs returns
  out,     \* the lines written to standard output
  pi,      \* main's index in docs
  call,    \* the arguments of a direct call of getFnSignature: [fn, names]
  ret      \* what that call returned

vars == <<funcs, pc, gi, group, ci, doc, docs, err, out, pi, call, ret>>

\* &functionDoc{}
EmptyDoc == [Name |-> <<>>, DocString |-> <<>>, Signature |-> <<>>, Returns |-> <<>>]

NoCall == [fn |-> NotFunc, names |-> <<>>]
NoRet  == [sig |-> <<>>, outs |-> <<>>, err |-> FALSE]

Init ==
  /\ funcs \in Registries
  /\ pc = "parse"
  /\ gi = 0
  /\ group = <<>>
  /\ ci = 0
  /\ doc = EmptyDoc
  /\ docs = <<>>
  /\ err = "nil"
  /\ out = <<>>
  /\ pi = 0
  /\ call = NoCall
  /\ ret = NoRet

\* ------------------------------------------------- GenerateFunctionDocs
\* parser.ParseFile succeeds: docs is the empty slice, the outer loop starts
ParseFile ==
  /\ pc = "parse"
  /\ pc' = "groups"
  /\ UNCHANGED <<funcs, gi, group, ci, doc, docs, err, out, pi, call, ret>>

\* parser.ParseFile fails: return nil, err
ParseError ==
  /\ pc = "parse"
  /\ pc' = "returned"
  /\ err' = "ParseError"
  /\ UNCHANGED <<funcs, gi, group, ci, doc, docs, out, pi, call, ret>>

\* the outer loop is at its head (the label NextComment)
AtNextComment == pc = "groups"

\* the inner loop is at a comment of the current group
AtComment == pc = "comment" /\ ci <= Len(group)

\* the match of rxFnDocString against the current comment
Match == MatchFn(group[ci])

\* line 44: the function is known and the docstring is not empty
Known(m) == m.func \in DOMAIN funcs /\ m.docstring # <<>>

\* line 51: the signature of the function an accepted match names
Signature(m) == getFnSignature(funcs[m.func], ArgNames(m.docstring))

\* `for _, group := range source.Comments`: the next group, a fresh doc
NextGroup ==
  /\ AtNextComment
  /\ gi < MaxGroups
  /\ \E g \in Groups : group' = g
  /\ gi' = gi + 1
  /\ ci' = 1
  /\ doc' = EmptyDoc
  /\ pc' = "comment"
  /\ UNCHANGED <<funcs, docs, err, out, pi, call, ret>>

\* AcceptAnnotation that keeps the text gathered so far when the group
\* already has a name
AcceptAnnotationKeepsText ==
  /\ AtComment
  /\ Match.ok /\ Known(Match) /\ ~Signature(Match).err
  /\ doc' = [Name      |-> Match.func,
             DocString |-> IF doc.Name = <<>> THEN Match.docstring
                           ELSE doc.DocString \o <<" ">> \o Match.docstring,
             Signature |-> Signature(Match).sig,
             Returns   |-> Signature(Match).outs]
  /\ ci' = ci + 1
  /\ UNCHANGED <<funcs, pc, gi, group, docs, err, out, pi, call, ret>>

\* AcceptAnnotation that stores the docstring without its emphasis markers
IsNoMarker(c) == c # "*"
AcceptAnnotationStripsMarkers ==
  /\ AtComment
  /\ Match.ok /\ Known(Match) /\ ~Signature(Match).err
  /\ doc' = [Name      |-> Match.func,
             DocString |-> SelectSeq(Match.docstring, IsNoMarker),
             Signature |-> Signature(Match).sig,
             Returns   |-> Signature(Match).outs]
  /\ ci' = ci + 1
  /\ UNCHANGED <<funcs, pc, gi, group, docs, err, out, pi, call, ret>>

\* lines 52-55: the annotation is accepted
AcceptAnnotation ==
  /\ AtComment
  /\ Match.ok /\ Known(Match) /\ ~Signature(Match).err
  /\ doc' = [Name      |-> Match.func,
             DocString |-> Match.docstring,
             Signature |-> Signature(Match).sig,
             Returns   |-> Signature(Match).outs]
  /\ ci' = ci + 1
  /\ UNCHANGED <<funcs, pc, gi, group, docs, err, out, pi, call, ret>>

\* SignatureFailed that leaves the comment, not the group
SignatureFailedSkipsComment ==
  /\ AtComment
  /\ Match.ok /\ Known(Match) /\ Signature(Match).err
  /\ out' = Append(out, SignatureFailedLine)
  /\ ci' = ci + 1
  /\ UNCHANGED <<funcs, pc, gi, group, doc, docs, err, pi, call, ret>>

\* lines 56-59: getFnSignature failed; the message is printed and the group
\* is left
SignatureFailed ==
  /\ AtComment
  /\ Match.ok /\ Known(Match) /\ Signature(Match).err
  /\ out' = Append(out, SignatureFailedLine)
  /\ pc' = "failed"
  /\ UNCHANGED <<funcs, gi, group, ci, doc, docs, err, pi, call, ret>>

\* IgnoreAnnotation that falls through to the continuation branch when the
\* group has a name
IgnoreAnnotationContinues ==
  /\ AtComment
  /\ Match.ok /\ ~Known(Match)
  /\ doc' = IF doc.Name = <<>> THEN doc
            ELSE [doc EXCEPT !.DocString =
                    @ \o <<" ">> \o TrimSpace(TrimPrefix(group[ci], <<"/", "/">>))]
  /\ ci' = ci + 1
  /\ UNCHANGED <<funcs, pc, gi, group, docs, err, out, pi, call, ret>>

\* line 44 is false: an annotation for an unknown function or with an empty
\* docstring does nothing
IgnoreAnnotation ==
  /\ AtComment
  /\ Match.ok /\ ~Known(Match)
  /\ ci' = ci + 1
  /\ UNCHANGED <<funcs, pc, gi, group, doc, docs, err, out, pi, call, ret>>

\* AppendContinuation without strings.TrimSpace
AppendContinuationUntrimmed ==
  /\ AtComment
  /\ ~Match.ok /\ doc.Name # <<>>
  /\ doc' = [doc EXCEPT !.DocString =
               @ \o <<" ">> \o TrimPrefix(group[ci], <<"/", "/">>)]
  /\ ci' = ci + 1
  /\ UNCHANGED <<funcs, pc, gi, group, docs, err, out, pi, call, ret>>

\* lines 61-65: a comment that is no annotation continues the docstring
AppendContinuation ==
  /\ AtComment
  /\ ~Match.ok /\ doc.Name # <<>>
  /\ doc' = [doc EXCEPT !.DocString =
               @ \o <<" ">> \o TrimSpace(TrimPrefix(group[ci], <<"/", "/">>))]
  /\ ci' = ci + 1
  /\ UNCHANGED <<funcs, pc, gi, group, docs, err, out, pi, call, ret>>

\* AbandonGroup that leaves the comment, not the group
AbandonGroupSkipsComment ==
  /\ AtComment
  /\ ~Match.ok /\ doc.Name = <<>>
  /\ ci' = ci + 1
  /\ UNCHANGED <<funcs, pc, gi, group, doc, docs, err, out, pi, call, ret>>

\* lines 66-67: a comment that is no annotation, and no name yet
AbandonGroup ==
  /\ AtComment
  /\ ~Match.ok /\ doc.Name = <<>>
  /\ pc' = "abandoned"
  /\ UNCHANGED <<funcs, gi, group, ci, doc, docs, err, out, pi, call, ret>>

\* line 71: the inner loop ran to its end
AppendDoc ==
  /\ pc = "comment" /\ ci > Len(group)
  /\ docs' = Append(docs, doc)
  /\ pc' = "appended"
  /\ UNCHANGED <<funcs, gi, group, ci, doc, err, out, pi, call, ret>>

\* the end of one iteration of the outer loop, by line 71 or by one of the
\* two `continue NextComment`: the iteration's locals are gone
EndGroup ==
  /\ pc \in {"appended", "abandoned", "failed"}
  /\ pc' = "groups"
  /\ group' = <<>>
  /\ ci' = 0
  /\ doc' = EmptyDoc
  /\ UNCHANGED <<funcs, gi, docs, err, out, pi, call, ret>>

\* line 74: the outer loop ran to its end
Return ==
  /\ AtNextComment
  /\ pc' = "returned"
  /\ pi' = 1
  /\ UNCHANGED <<funcs, gi, group, ci, doc, docs, err, out, call, ret>>

\* -------------------------------------------------------------------- main
\* lines 135-146: one record is printed
PrintDoc ==
  /\ pc = "returned" /\ err = "nil"
  /\ pi <= Len(docs)
  /\ out' = out \o <<Header(docs[pi]), docs[pi].DocString, <<>>>>
  /\ pi' = pi + 1
  /\ UNCHANGED <<funcs, pc, gi, group, ci, doc, docs, err, call, ret>>

\* line 149
PrintErr ==
  /\ pc = "returned" /\ err # "nil"
  /\ out' = Append(out, ErrLine)
  /\ pc' = "exit"
  /\ UNCHANGED <<funcs, gi, group, ci, doc, docs, err, pi, call, ret>>

\* the loop over docs ran to its end
Exit ==
  /\ pc = "returned" /\ err = "nil"
  /\ pi > Len(docs)
  /\ pc' = "exit"
  /\ UNCHANGED <<funcs, gi, group, ci, doc, docs, err, out, pi, call, ret>>

Next ==
  \/ ParseFile
  \/ ParseError
  \/ NextGroup
  \/ AcceptAnnotation
  \/ SignatureFailed
  \/ IgnoreAnnotation
  \/ AppendContinuation
  \/ AbandonGroup
  \/ AppendDoc
  \/ EndGroup
  \/ Return
  \/ PrintDoc
  \/ PrintErr
  \/ Exit

Spec == Init /\ [][Next]_vars

\* ---------------------------------------------- getFnSignature, directly
\* a call of getFnSignature on any callable and any list of argument names,
\* and main's header line for what it returns
InitSig ==
  /\ funcs = StandardFunctions
  /\ pc = "call"
  /\ gi = 0
  /\ group = <<>>
  /\ ci = 0
  /\ doc = EmptyDoc
  /\ docs = <<>>
  /\ err = "nil"
  /\ out = <<>>
  /\ pi = 0
  /\ call \in Calls
  /\ ret = NoRet

\* line 51
CallSignature ==
  /\ pc = "call"
  /\ ret' = getFnSignature(call.fn, call.names)
  /\ pc' = "called"
  /\ UNCHANGED <<funcs, gi, group, ci, doc, docs, err, out, pi, call>>

\* lines 52-55, then lines 135-145 for that record
RenderSignature ==
  /\ pc = "called" /\ ~ret.err
  /\ doc' = [Name |-> Add, DocString |-> <<>>, Signature |-> ret.sig,
             Returns |-> ret.outs]
  /\ out' = Append(out, Header(doc'))
  /\ pc' = "exit"
  /\ UNCHANGED <<funcs, gi, group, ci, docs, err, pi, call, ret>>

\* lines 56-57
SignatureError ==
  /\ pc = "called" /\ ret.err
  /\ out' = Append(out, SignatureFailedLine)
  /\ pc' = "exit"
  /\ UNCHANGED <<funcs, gi, group, ci, doc, docs, err, pi, call, ret>>

NextSig ==
  \/ CallSignature
  \/ RenderSignature
  \/ SignatureError

SpecSig == InitSig /\ [][NextSig]_vars

\* ---------------------------------------------------------------- expected
\* "adds *a* and *b* together."
DocAdd ==
  <<"a","d","d","s"," ","*","a","*"," ","a","n","d"," ","*","b","*"," ","t",
    "o","g","e","t","h","e","r",".">>
\* "adds a and b together."
DocAddPlain ==
  <<"a","d","d","s"," ","a"," ","a","n","d"," ","b"," ","t","o","g","e","t",
    "h","e","r",".">>
\* " Useful for testing."
ThenUseful ==
  <<" ","U","s","e","f","u","l"," ","f","o","r"," ","t","e","s","t","i","n",
    "g",".">>
\* "Add(a int, b int) int"
HeaderAdd ==
  <<"A","d","d","(","a"," ","i","n","t",","," ","b"," ","i","n","t",")"," ",
    "i","n","t">>

\* the Signature and Returns of Add in the registry of the run:
\* "a int, b int" and "int", or "a int, b ..." and "int, error"
SignatureOfAdd ==
  IF funcs = StandardFunctions
  THEN <<"a"," ","i","n","t",","," ","b"," ","i","n","t">>
  ELSE <<"a"," ","i","n","t",","," ","b"," ",".",".",".">>
ReturnsOfAdd ==
  IF funcs = StandardFunctions
  THEN <<"i","n","t">>
  ELSE <<"i","n","t",","," ","e","r","r","o","r">>

\* the record of Add with k continuation comments "Useful for testing."
RECURSIVE Repeat(_, _)
Repeat(t, k) == IF k <= 0 THEN <<>> ELSE t \o Repeat(t, k - 1)

RecordOfAdd(k) ==
  [Name      |-> Add,
   DocString |-> DocAdd \o Repeat(ThenUseful, k),
   Signature |-> SignatureOfAdd,
   Returns   |-> ReturnsOfAdd]

\* the comments of the current group the inner loop is done with
Processed == ci - 1

\* ------------------------------------------------------------------ claims
\* C1: a record is appended to the result exactly when a comment group ends
\* in the ACTIVE state (doc.Name set), and at no other step: a group of only
\* ignored annotation lines adds nothing.
C1_RecordIffActive ==
  [][IF pc = "comment" /\ ci > Len(group) /\ doc.Name # <<>>
     THEN docs' = Append(docs, doc)
     ELSE docs' = docs]_vars

\* C2: every record GenerateFunctionDocs returns has a Name that is a key of
\* the registry and a DocString that is not empty.
C2_RecordsAreNamed ==
  (pc = "returned" /\ err = "nil") =>
    \A i \in 1..Len(docs) :
      docs[i].Name \in DOMAIN funcs /\ docs[i].DocString # <<>>

\* C3: a comment that is no annotation, met while the group has no accepted
\* annotation, abandons the group there: the step goes to the next group
\* with the result as it was and the rest of the group's comments unread.
C3_AbandonInInit ==
  [][/\ (AtComment /\ group[ci] = LineUseful /\ doc.Name = <<>>) =>
          (pc' = "abandoned" /\ UNCHANGED <<docs, group, ci, doc>>)
     /\ (pc = "abandoned") =>
          (pc' = "groups" /\ docs' = docs /\ group' = <<>> /\ ci' = 0)]_vars

\* an abandoned group whose first comment was an ignored annotation and
\* whose unread last comment is a valid annotation
C3_Witness ==
  /\ pc = "abandoned"
  /\ ci = 2
  /\ group = <<LineMultiply, LineUseful, LineAdd>>

\* C4: an annotation naming a registry value that is no func drops the
\* group: no record, the rest of its comments unread, the loop back at its
\* head with the result and the nil error as they were before the group.
C4_SignatureFailureDropsGroup ==
  [][/\ (AtComment /\ group[ci] = LineVersion) =>
          (pc' = "failed" /\ err' = "nil" /\ UNCHANGED <<docs, group, ci>>)
     /\ (pc = "comment" /\ pc' # "appended") => docs' = docs
     /\ (pc = "failed") =>
          (/\ pc' = "groups" /\ docs' = docs /\ err' = "nil"
           /\ group' = <<>> /\ ci' = 0 /\ doc' = EmptyDoc)
     /\ (pc = "groups") => err' = "nil"]_vars

\* a group that fails after an accepted annotation and a continuation, with
\* a record of an earlier group in the result
C4_Witness ==
  /\ pc = "failed"
  /\ group = <<LineAdd, LineUseful, LineVersion>>
  /\ doc = RecordOfAdd(1)
  /\ docs = <<RecordOfAdd(0)>>

\* C5: an annotation for an unregistered function, or with an empty
\* docstring, changes neither doc nor the result, and the loop goes on with
\* the next comment of the group.
C5_IgnoredAnnotationIsNoOp ==
  [][(AtComment /\ group[ci] \in {LineMultiply, LineAddEmpty}) =>
       (/\ doc' = doc /\ docs' = docs /\ group' = group
        /\ pc' = "comment" /\ ci' = ci + 1)]_vars

\* an ACTIVE group that met one annotation of either kind
C5_Witness ==
  /\ pc = "appended"
  /\ group = <<LineAdd, LineMultiply, LineAddEmpty>>
  /\ doc = RecordOfAdd(0)

RECURSIVE ParamsFrom(_, _, _)
ParamsFrom(fn, names, i) ==
  IF i > Len(fn.in) THEN <<>>
  ELSE (IF i > 1 THEN <<",", " ">> ELSE <<>>)
       \o (IF i <= Len(names) THEN names[i] \o <<" ">> ELSE <<>>)
       \o (IF fn.variadic /\ i = Len(fn.in) THEN <<".", ".", ".">> ELSE <<>>)
       \o fn.in[i].name
       \o ParamsFrom(fn, names, i + 1)

\* C8: for n parameters and m names getFnSignature returns n entries joined
\* by ", ", entry i named when i <= m, the last one of a variadic func, and
\* no other, with `...` before its type.
C8_ParameterString ==
  (pc = "called" /\ call.fn.kind = "func") =>
    /\ ~ret.err
    /\ ret.sig = ParamsFrom(call.fn, call.names, 1)
    /\ CountFrom(ret.sig, 1, ",") =
         (IF Len(call.fn.in) = 0 THEN 0 ELSE Len(call.fn.in) - 1)

\* a variadic func of two parameters called with one name
C8_Witness ==
  /\ pc = "called"
  /\ call.fn.variadic
  /\ Len(call.fn.in) = 2
  /\ Len(call.names) = 1
  /\ ret.sig = <<"a", " ", "i", "n", "t", ",", " ", ".", ".", ".">>

\* the return part of the header by the number of return values
ReturnPart(o) ==
  IF Len(o) = 0 THEN <<>>
  ELSE IF Len(o) = 1 THEN <<" ">> \o o[1].name
  ELSE <<" ", "(">> \o Join([i \in 1..Len(o) |-> o[i].name], <<",", " ">>)
       \o <<")">>

\* C9: the header's return part is decided by the number of return values:
\* nothing for none, a space and the type for one, a space and the
\* parenthesized list for two or more.
C9_ReturnPartByCount ==
  (pc = "exit" /\ call.fn.kind = "func") =>
    out[1] = Add \o <<"(">> \o ret.sig \o <<")">> \o ReturnPart(call.fn.out)

\* the last comment `// fn Add: ...` among the first n of group g, 0 if none
LastAdd(g, n) ==
  LET S == {j \in 1..n : g[j] = LineAdd}
  IN  IF S = {} THEN 0 ELSE CHOOSE j \in S : \A k \in S : k <= j

\* how many of the comments j+1..n of group g are "Useful for testing."
UsefulAfter(g, j, n) == Cardinality({i \in (j + 1)..n : g[i] = LineUseful})

\* C10: an annotation accepted in an ACTIVE group replaces doc wholesale, so
\* doc is the last accepted annotation with the continuations after it; a
\* group adds at most one record, at the end of the result.
C10_LastAnnotationWins ==
  /\ [](/\ (pc \in {"comment", "appended"}
            /\ LastAdd(group, Processed) > 0) =>
             doc = RecordOfAdd(UsefulAfter(group, LastAdd(group, Processed),
                                           Processed))
        /\ Len(docs) <= gi
        /\ (pc = "comment") => Len(docs) < gi)
  /\ [][docs' = docs \/ (pc = "comment" /\ docs' = Append(docs, doc))]_vars

\* a second annotation accepted after an annotation and its continuation
C10_Witness ==
  /\ pc = "appended"
  /\ group = <<LineAdd, LineUseful, LineAdd>>
  /\ doc = RecordOfAdd(0)

====
